---- MODULE Spec2Model ----
(***************************************************************************)
(* Model of src/main.py: the /process request pipeline (authentication,    *)
(* validation, path normalisation, download, ffmpeg WAV and HLS, Whisper   *)
(* transcription, uploads, status mapping and workspace cleanup).          *)
(* Python strings are TLA+ strings; TLC evaluates Len, SubSeq and \o on    *)
(* them, so string functions are computed character by character.          *)
(***************************************************************************)
EXTENDS Integers, Sequences, FiniteSets, TLC

\* ---------------------------------------------------------------- bounds
NumReq == 2
MaxSegments == 2
MaxLines == 2

\* ------------------------------------------------------- configuration
SUPABASE_URL == "https://sb"
RAW_BUCKET == "raw"
PROCESSED_BUCKET == "processed"
TRANSCRIPTS_BUCKET == "transcripts"
API_KEY == "changeme"

\* ------------------------------------------------------ string helpers
\* s.startswith(pre)
StartsWith(s, pre) == Len(s) >= Len(pre) /\ SubSeq(s, 1, Len(pre)) = pre

\* s[n:]
Drop(s, n) == SubSeq(s, n + 1, Len(s))

\* the 1-based positions k >= from of s that hold character c
Positions(s, c, from) == {k \in from..Len(s) : SubSeq(s, k, k) = c}

\* smallest member of a non-empty set of integers
Least(S) == CHOOSE k \in S : \A j \in S : k <= j

\* largest member of a non-empty set of integers
Greatest(S) == CHOOSE k \in S : \A j \in S : k >= j

\* os.path.basename(p): what follows the last "/"
Basename(p) ==
  IF Positions(p, "/", 1) = {} THEN p
  ELSE Drop(p, Greatest(Positions(p, "/", 1)))

\* ------------------------------------------------------- path resolver
\* The regular expression of line 80, anchored at position i of p:
\*   /storage/v1/object/(?:sign|raw)/([^/]+)/(.+?)(?:\?|$)
\* A match is [bucket, path]; no match is the empty set.
ObjectMark == "/storage/v1/object/"

RegexAt(p, i) ==
  LET s == Drop(p, i - 1)
      kinds == {k \in {"sign/", "raw/"} : StartsWith(s, ObjectMark \o k)}
  IN  IF kinds = {} THEN {}
      ELSE
        LET k == CHOOSE x \in kinds : TRUE
            b == i + Len(ObjectMark) + Len(k)       \* first bucket character
            slashes == Positions(p, "/", b)
        IN  IF slashes = {} THEN {}
            ELSE
              LET e == Least(slashes)               \* the "/" ending [^/]+
                  qs == Positions(p, "?", e + 2)    \* (.+?) takes >= 1 char
                  last == IF qs = {} THEN Len(p) ELSE Least(qs) - 1
              IN  IF e = b \/ e + 1 > Len(p) THEN {}
                  ELSE {[bucket |-> SubSeq(p, b, e - 1),
                         path |-> SubSeq(p, e + 1, last)]}

\* re.search: the match at the leftmost position that has one
RegexSearch(p) ==
  LET hits == {i \in 1..Len(p) : RegexAt(p, i) # {}}
  IN  IF hits = {} THEN {} ELSE RegexAt(p, Least(hits))

\* lines 76-87: the URL branch
UrlPart(p) ==
  IF StartsWith(p, "http")
  THEN IF RegexSearch(p) # {}
       THEN (CHOOSE m \in RegexSearch(p) : TRUE).path
       ELSE p
  ELSE p

\* a strip of the first segment whatever its name
StripFirstSegment(p) ==
  IF Positions(p, "/", 1) = {} THEN p ELSE Drop(p, Least(Positions(p, "/", 1)))

\* lines 89-91: strip one leading "<RAW_BUCKET>/"
StripRaw(p) ==
  IF StartsWith(p, RAW_BUCKET \o "/") THEN Drop(p, Len(RAW_BUCKET) + 1) ELSE p

normalize_path_in_bucket(raw_path) == StripRaw(UrlPart(raw_path))

\* lines 56-64: the credential headers of a storage call
sb_headers == {"Authorization", "apikey"}

\* a GET that always carries the credential headers
sb_download_request_with_headers(bucket, path) ==
  IF StartsWith(path, "http")
  THEN [url |-> path, headers |-> sb_headers]
  ELSE [url |-> SUPABASE_URL \o "/storage/v1/object/raw/" \o bucket \o "/" \o path,
        headers |-> sb_headers]

\* lines 100-107: the GET that sb_download issues for a resolved locator
sb_download_request(bucket, path) ==
  IF StartsWith(path, "http")
  THEN [url |-> path, headers |-> {}]
  ELSE [url |-> SUPABASE_URL \o "/storage/v1/object/raw/" \o bucket \o "/" \o path,
        headers |-> sb_headers]

\* line 199: the local name of the downloaded input
local_raw_name(path) == IF Basename(path) = "" THEN "input.webm" ELSE Basename(path)

\* line 203: the local name of the audio extract
local_wav_name == "audio.wav"

\* line 210: the local name of the bundle directory
hls_dir_name == "hls"

\* ------------------------------------------------------ request inputs
Req == 1..NumReq
Dirs == 1..NumReq

\* the X-API-Key header: <<>> when absent (Header(None)), else <<value>>
Keys == {<<>>, <<"wrong">>, <<API_KEY>>}

RawPaths == {"", "raw/a.webm", "https://h/f/a.webm",
             "https://h/storage/v1/object/sign/vids/c/a.webm?token=xyz"}
Prefixes == {"", "p", "out/v1"}
TranscriptPrefixes == {"t"}

FieldValues(k) ==
  IF k = "rawPath" THEN RawPaths
  ELSE IF k = "processedPrefix" THEN Prefixes
  ELSE TranscriptPrefixes

\* the JSON bodies: dicts over any subset of the three fields
Bodies ==
  UNION {{d \in [K -> RawPaths \union Prefixes \union TranscriptPrefixes] :
            \A k \in K : d[k] \in FieldValues(k)} :
         K \in SUBSET {"rawPath", "processedPrefix", "transcriptPrefix"}}

\* a check for absence only: "data.get(k) is None"
FalsyNoneOnly(d, k) == k \notin DOMAIN d

\* not data.get(k)
Falsy(d, k) == k \notin DOMAIN d \/ d[k] = ""

\* the files ffmpeg's hls muxer leaves for a playlist of n segments
Digit(i) == SubSeq("0123456789", i + 1, i + 1)
HlsFiles(n) == {"master.m3u8"} \union {"master" \o Digit(i) \o ".ts" : i \in 0..(n - 1)}

\* ------------------------------------------------------------- state
VARIABLES
  pc,             \* per request: position in process()
  x_api_key,      \* per request: the header value
  data,           \* per request: the body dict
  path_in_bucket, \* per request: local of line 192
  temp_dir,       \* per request: 0 while the local is unbound, else the directory
  todo,           \* per request: names the loop of line 214 still has to visit
  exc,            \* per request: the exception in flight ("" when none)
  status,         \* per request: HTTP status of the response (0 before it exists)
  resp,           \* per request: the 200 body (<<>> before it exists)
  calls,          \* per request: the external calls made, in order
  oks,            \* per request: the stages that logged their "... OK" line
  dirs,           \* the temporary directories that exist on disk
  files,          \* per directory: the paths that exist inside it
  store,          \* destination storage: the <<bucket, path>> objects put so far
  engine,         \* the requests that are inside model.transcribe
  locator,        \* resolver check: the locator under test
  resolved,       \* resolver check: the successive results of resolving it
  eng_info,       \* run_transcription: the info the engine returned
  eng_segments,   \* run_transcription: the segments the engine yields, in yield order
  tr_pc,          \* run_transcription: position
  transcript_json,\* run_transcription: the dict of line 156
  txt_lines,      \* run_transcription: the list of line 157
  transcript_txt  \* run_transcription: the string of line 166

reqVars == <<pc, x_api_key, data, path_in_bucket, temp_dir, todo, exc, status, resp, calls, oks>>
sysVars == <<dirs, files, store, engine>>
trVars == <<eng_info, eng_segments, tr_pc, transcript_json, txt_lines, transcript_txt>>
resVars == <<locator, resolved, trVars>>
vars == <<reqVars, sysVars, resVars>>

Init ==
  /\ pc = [r \in Req |-> "idle"]
  /\ x_api_key = [r \in Req |-> <<>>]
  /\ data = [r \in Req |-> <<>>]
  /\ path_in_bucket = [r \in Req |-> ""]
  /\ temp_dir = [r \in Req |-> 0]
  /\ todo = [r \in Req |-> {}]
  /\ exc = [r \in Req |-> ""]
  /\ status = [r \in Req |-> 0]
  /\ resp = [r \in Req |-> <<>>]
  /\ calls = [r \in Req |-> <<>>]
  /\ oks = [r \in Req |-> {}]
  /\ dirs = {}
  /\ files = [d \in Dirs |-> {}]
  /\ store = {}
  /\ engine = {}
  /\ locator = ""
  /\ resolved = <<>>
  /\ eng_info = [duration |-> 0, language |-> "en"]
  /\ eng_segments = <<>>
  /\ tr_pc = "idle"
  /\ transcript_json = <<>>
  /\ txt_lines = <<>>
  /\ transcript_txt = ""

\* raise e at request r: control passes to the except clauses of line 239
Raise(r, e) ==
  /\ pc' = [pc EXCEPT ![r] = "except"]
  /\ exc' = [exc EXCEPT ![r] = e]

Goto(r, l) ==
  /\ pc' = [pc EXCEPT ![r] = l]
  /\ UNCHANGED exc

Call(r, op, a, b) == calls' = [calls EXCEPT ![r] = Append(@, <<op, a, b>>)]

\* the log line that ends a stage: lines 117, 135, 148, 167
Ok(r, stage) == oks' = [oks EXCEPT ![r] = @ \union {stage}]

\* a check that lets a request without the header through
UnauthorizedIfPresent(k) == k # <<>> /\ k # <<API_KEY>>

\* line 181: x_api_key != API_KEY
Unauthorized(k) == k # <<API_KEY>>

\* line 187: not raw_path_in or not processed_prefix
BadRequest(d) == Falsy(d, "rawPath") \/ Falsy(d, "processedPrefix")

\* a handler that validates the body before it looks at the key
AcceptValidateFirst(r, k, d) ==
  /\ pc[r] = "idle"
  /\ x_api_key' = [x_api_key EXCEPT ![r] = k]
  /\ data' = [data EXCEPT ![r] = d]
  /\ IF BadRequest(d)
     THEN Raise(r, "http400") /\ UNCHANGED path_in_bucket
     ELSE IF Unauthorized(k)
     THEN Raise(r, "http401") /\ UNCHANGED path_in_bucket
     ELSE /\ Goto(r, "mkdtemp")
          /\ path_in_bucket' =
               [path_in_bucket EXCEPT ![r] = normalize_path_in_bucket(d["rawPath"])]
  /\ UNCHANGED <<temp_dir, todo, status, resp, calls, oks, sysVars, resVars>>

\* lines 176-193: process(data, x_api_key) up to the normalised path:
\* authenticate, validate, normalise
Accept(r, k, d) ==
  /\ pc[r] = "idle"
  /\ x_api_key' = [x_api_key EXCEPT ![r] = k]
  /\ data' = [data EXCEPT ![r] = d]
  /\ IF Unauthorized(k)
     THEN Raise(r, "http401") /\ UNCHANGED path_in_bucket
     ELSE IF BadRequest(d)
     THEN Raise(r, "http400") /\ UNCHANGED path_in_bucket
     ELSE /\ Goto(r, "mkdtemp")
          /\ path_in_bucket' =
               [path_in_bucket EXCEPT ![r] = normalize_path_in_bucket(d["rawPath"])]
  /\ UNCHANGED <<temp_dir, todo, status, resp, calls, oks, sysVars, resVars>>

\* a request with any header and any body
Receive(r) == \E k \in Keys, d \in Bodies : Accept(r, k, d)

\* the workspace path of a name: os.path.join(temp_dir, name)
AddFiles(d, names) == files' = [files EXCEPT ![d] = @ \union names]

\* a workspace at a path that may already be in use
MkdtempAnyDir(r) ==
  /\ pc[r] = "mkdtemp"
  /\ \/ \E d \in Dirs :
          /\ temp_dir' = [temp_dir EXCEPT ![r] = d]
          /\ dirs' = dirs \union {d}
          /\ Goto(r, "download")
     \/ /\ Raise(r, "OSError")
        /\ UNCHANGED <<temp_dir, dirs>>
  /\ UNCHANGED <<x_api_key, data, path_in_bucket, todo, status, resp, calls, oks,
                 files, store, engine, resVars>>

\* line 195: tempfile.mkdtemp() creates a directory that did not exist
Mkdtemp(r) ==
  /\ pc[r] = "mkdtemp"
  /\ \/ \E d \in Dirs \ dirs :
          /\ temp_dir' = [temp_dir EXCEPT ![r] = d]
          /\ dirs' = dirs \union {d}
          /\ Goto(r, "download")
     \/ /\ Raise(r, "OSError")                    \* mkdtemp could not create it
        /\ UNCHANGED <<temp_dir, dirs>>
  /\ UNCHANGED <<x_api_key, data, path_in_bucket, todo, status, resp, calls, oks,
                 files, store, engine, resVars>>

\* a download that is tried again when the status is not 200
DownloadWithRetry(r) ==
  /\ pc[r] = "download"
  /\ LET q == sb_download_request(RAW_BUCKET, path_in_bucket[r])
     IN  Call(r, "get", q.url, IF q.headers = {} THEN "plain" ELSE "authorized")
  /\ \/ /\ AddFiles(temp_dir[r], {local_raw_name(path_in_bucket[r])})
        /\ Ok(r, "download")
        /\ Goto(r, "wav")
     \/ /\ Goto(r, "download")
        /\ UNCHANGED <<files, oks>>
     \/ /\ Raise(r, "RequestException")           \* connection error, timeout
        /\ UNCHANGED <<files, oks>>
  /\ UNCHANGED <<x_api_key, data, path_in_bucket, temp_dir, todo, status, resp,
                 dirs, store, engine, resVars>>

\* lines 198-200 and 94-117: sb_download(RAW_BUCKET, path_in_bucket, local_raw)
Download(r) ==
  /\ pc[r] = "download"
  /\ LET q == sb_download_request(RAW_BUCKET, path_in_bucket[r])
     IN  Call(r, "get", q.url, IF q.headers = {} THEN "plain" ELSE "authorized")
  /\ \/ /\ AddFiles(temp_dir[r], {local_raw_name(path_in_bucket[r])})
        /\ Ok(r, "download")
        /\ Goto(r, "wav")
     \/ /\ Raise(r, "http502")                    \* r.status_code != 200
        /\ UNCHANGED <<files, oks>>
     \/ /\ Raise(r, "RequestException")           \* connection error, timeout
        /\ UNCHANGED <<files, oks>>
  /\ UNCHANGED <<x_api_key, data, path_in_bucket, temp_dir, todo, status, resp,
                 dirs, store, engine, resVars>>

\* a conversion whose exit code is not checked
ConvertToWavUnchecked(r) ==
  /\ pc[r] = "wav"
  /\ Call(r, "ffmpeg", "wav", local_raw_name(path_in_bucket[r]))
  /\ \/ /\ AddFiles(temp_dir[r], {"audio.wav"})
        /\ Ok(r, "wav")
        /\ Goto(r, "transcribe")
     \/ /\ Goto(r, "transcribe")
        /\ UNCHANGED <<files, oks>>
     \/ /\ Raise(r, "OSError")
        /\ UNCHANGED <<files, oks>>
  /\ UNCHANGED <<x_api_key, data, path_in_bucket, temp_dir, todo, status, resp,
                 dirs, store, engine, resVars>>

\* lines 203-204 and 131-135: convert_to_wav(local_raw, local_wav)
ConvertToWav(r) ==
  /\ pc[r] = "wav"
  /\ Call(r, "ffmpeg", "wav", local_raw_name(path_in_bucket[r]))
  /\ \/ /\ AddFiles(temp_dir[r], {"audio.wav"})
        /\ Ok(r, "wav")
        /\ Goto(r, "transcribe")
     \/ /\ Raise(r, "CalledProcessError")         \* non-zero exit, check=True
        /\ UNCHANGED <<files, oks>>
     \/ /\ Raise(r, "OSError")                    \* ffmpeg could not be started
        /\ UNCHANGED <<files, oks>>
  /\ UNCHANGED <<x_api_key, data, path_in_bucket, temp_dir, todo, status, resp,
                 dirs, store, engine, resVars>>

\* line 153: model.transcribe(local_wav) returns the lazy segment sequence
TranscribeStart(r) ==
  /\ pc[r] = "transcribe"
  /\ Call(r, "transcribe", "audio.wav", "")
  /\ \/ /\ engine' = engine \union {r}
        /\ Goto(r, "segments")
     \/ /\ Raise(r, "EngineError")
        /\ UNCHANGED engine
  /\ UNCHANGED <<x_api_key, data, path_in_bucket, temp_dir, todo, status, resp, oks,
                 dirs, files, store, resVars>>

\* a loop that swallows the engine's exception and goes on
TranscribeEndSwallow(r) ==
  /\ pc[r] = "segments"
  /\ engine' = engine \ {r}
  /\ \/ /\ Ok(r, "transcribe")
        /\ Goto(r, "hls")
     \/ /\ Goto(r, "hls")
        /\ UNCHANGED oks
  /\ UNCHANGED <<x_api_key, data, path_in_bucket, temp_dir, todo, status, resp,
                 calls, dirs, files, store, resVars>>

\* lines 156-168: the loop that consumes the segments
TranscribeEnd(r) ==
  /\ pc[r] = "segments"
  /\ engine' = engine \ {r}
  /\ \/ /\ Ok(r, "transcribe")
        /\ Goto(r, "hls")
     \/ /\ Raise(r, "EngineError")                \* the engine raised while decoding
        /\ UNCHANGED oks
  /\ UNCHANGED <<x_api_key, data, path_in_bucket, temp_dir, todo, status, resp,
                 calls, dirs, files, store, resVars>>

\* lines 210-214 and 137-149: export_hls(local_raw, hls_dir), then os.listdir
ExportHlsOf(r, counts) ==
  /\ pc[r] = "hls"
  /\ Call(r, "ffmpeg", "hls", local_raw_name(path_in_bucket[r]))
  /\ \/ \E n \in counts :
          /\ AddFiles(temp_dir[r], {"hls"} \union {"hls/" \o f : f \in HlsFiles(n)})
          /\ todo' = [todo EXCEPT ![r] = HlsFiles(n)]
          /\ Ok(r, "hls")
          /\ Goto(r, "upload_hls")
     \/ /\ AddFiles(temp_dir[r], {"hls"})
        /\ Raise(r, "CalledProcessError")
        /\ UNCHANGED <<todo, oks>>
     \/ /\ AddFiles(temp_dir[r], {"hls"})
        /\ Raise(r, "OSError")
        /\ UNCHANGED <<todo, oks>>
  /\ UNCHANGED <<x_api_key, data, path_in_bucket, temp_dir, status, resp,
                 dirs, store, engine, resVars>>

\* the bundle has any number of segments up to MaxSegments
ExportHls(r) == ExportHlsOf(r, 0..MaxSegments)

\* a PUT whose response status is not looked at
sb_upload_unchecked(r, bucket, path, next) ==
  /\ Call(r, "put", bucket, path)
  /\ \/ /\ store' = store \union {<<bucket, path>>}
        /\ Goto(r, next)
     \/ /\ Goto(r, next)
        /\ UNCHANGED store
     \/ /\ Raise(r, "RequestException")
        /\ UNCHANGED store

\* lines 119-128: sb_upload(bucket, path): a PUT that stores the object,
\* answers a status outside (200, 201), or fails in the network
sb_upload(r, bucket, path, next) ==
  /\ Call(r, "put", bucket, path)
  /\ \/ /\ store' = store \union {<<bucket, path>>}
        /\ Goto(r, next)
     \/ /\ Raise(r, "http502")
        /\ UNCHANGED store
     \/ /\ Raise(r, "RequestException")
        /\ UNCHANGED store

\* a destination that drops the prefix
remote_fp_flat(processed_prefix, fname) == fname

\* line 216
remote_fp(processed_prefix, fname) == processed_prefix \o "/" \o fname

\* lines 214-219: one iteration of the loop over os.listdir(hls_dir)
UploadHls(r) ==
  /\ pc[r] = "upload_hls"
  /\ \E fname \in todo[r] :
       /\ todo' = [todo EXCEPT ![r] = @ \ {fname}]
       /\ sb_upload(r, PROCESSED_BUCKET, remote_fp(data[r]["processedPrefix"], fname),
                    IF todo[r] = {fname} THEN "upload_json" ELSE "upload_hls")
  /\ UNCHANGED <<x_api_key, data, path_in_bucket, temp_dir, status, resp, oks,
                 dirs, files, engine, resVars>>

\* a transcript base that is the prefix itself
transcript_base_bare(processed_prefix) == processed_prefix

\* lines 222-224
transcript_base(processed_prefix) == processed_prefix \o "/transcript"
transcript_json_path(processed_prefix) == transcript_base(processed_prefix) \o ".json"
transcript_txt_path(processed_prefix) == transcript_base(processed_prefix) \o ".txt"

\* line 212
processed_path(processed_prefix) == processed_prefix \o "/master.m3u8"

\* line 225
UploadJson(r) ==
  /\ pc[r] = "upload_json"
  /\ sb_upload(r, TRANSCRIPTS_BUCKET, transcript_json_path(data[r]["processedPrefix"]),
               "upload_txt")
  /\ UNCHANGED <<x_api_key, data, path_in_bucket, temp_dir, todo, status, resp, oks,
                 dirs, files, engine, resVars>>

\* line 226
UploadTxt(r) ==
  /\ pc[r] = "upload_txt"
  /\ sb_upload(r, TRANSCRIPTS_BUCKET, transcript_txt_path(data[r]["processedPrefix"]),
               "respond")
  /\ UNCHANGED <<x_api_key, data, path_in_bucket, temp_dir, todo, status, resp, oks,
                 dirs, files, engine, resVars>>

\* lines 228-237: build the 200 body and return it
Respond(r) ==
  /\ pc[r] = "respond"
  /\ resp' = [resp EXCEPT ![r] =
       [processed_path |-> processed_path(data[r]["processedPrefix"]),
        transcript_json |-> transcript_json_path(data[r]["processedPrefix"]),
        transcript_txt |-> transcript_txt_path(data[r]["processedPrefix"])]]
  /\ status' = [status EXCEPT ![r] = 200]
  /\ Goto(r, "finally")
  /\ UNCHANGED <<x_api_key, data, path_in_bucket, temp_dir, todo, calls, oks,
                 sysVars, resVars>>

\* a mapping whose catch-all answers 502
StatusOfCatchAll502(e) ==
  IF e = "http401" THEN 401
  ELSE IF e = "http400" THEN 400
  ELSE IF e = "CalledProcessError" THEN 500
  ELSE 502

\* lines 239-248: the status of the exception that leaves process():
\* an HTTPException keeps its own, everything else becomes 500
StatusOf(e) ==
  IF e = "http401" THEN 401
  ELSE IF e = "http400" THEN 400
  ELSE IF e = "http502" THEN 502
  ELSE 500

Except(r) ==
  /\ pc[r] = "except"
  /\ status' = [status EXCEPT ![r] = StatusOf(exc[r])]
  /\ Goto(r, "finally")
  /\ UNCHANGED <<x_api_key, data, path_in_bucket, temp_dir, todo, resp, calls, oks,
                 sysVars, resVars>>

\* a cleanup that runs only when no exception is in flight
CleanupOnSuccess(r) ==
  IF temp_dir[r] # 0 /\ exc[r] = ""
  THEN /\ dirs' = dirs \ {temp_dir[r]}
       /\ files' = [files EXCEPT ![temp_dir[r]] = {}]
  ELSE UNCHANGED <<dirs, files>>

\* lines 249-255: shutil.rmtree(temp_dir) when the local is bound
Cleanup(r) ==
  IF temp_dir[r] # 0
  THEN /\ dirs' = dirs \ {temp_dir[r]}
       /\ files' = [files EXCEPT ![temp_dir[r]] = {}]
  ELSE UNCHANGED <<dirs, files>>

Finally(r) ==
  /\ pc[r] = "finally"
  /\ Cleanup(r)
  /\ Goto(r, "done")
  /\ UNCHANGED <<x_api_key, data, path_in_bucket, temp_dir, todo, status, resp,
                 calls, oks, store, engine, resVars>>

\* one step of the handler of request r after validation, the bundle having
\* one of the given numbers of segments
PipelineOf(r, counts) ==
  \/ Mkdtemp(r)
  \/ Download(r)
  \/ ConvertToWav(r)
  \/ TranscribeStart(r)
  \/ TranscribeEnd(r)
  \/ ExportHlsOf(r, counts)
  \/ UploadHls(r)
  \/ UploadJson(r)
  \/ UploadTxt(r)
  \/ Respond(r)
  \/ Except(r)
  \/ Finally(r)

\* one step of the handler of request r
Pipeline(r) == PipelineOf(r, 0..MaxSegments)

\* Spec: one request, with every header and every body
Next == Receive(1) \/ Pipeline(1)

Spec == Init /\ [][Next]_vars

\* SpecConc: NumReq concurrent requests that pass authentication and
\* validation, each with a bundle that holds the playlist only
ValidBodies == {[rawPath |-> "raw/a.webm", processedPrefix |-> p] : p \in {"p"}}

ReceiveValid(r) == \E d \in ValidBodies : Accept(r, <<API_KEY>>, d)

NextConc == \E r \in Req : ReceiveValid(r) \/ PipelineOf(r, {0})

SpecConc == Init /\ [][NextConc]_vars

\* SpecResolve: the path resolver applied to a locator, then to its own result
Heads == {"", "/", "raw/", "raw/raw/", "processed/", "http",
          "https://h/storage/v1/object/sign/raw/",
          "https://h/storage/v1/object/raw/raw/",
          "https://h/storage/v1/object/sign/vids/",
          "https://h/files/"}
Tails == {"", "a.webm", "clip1/a.webm", "raw/a.webm", "a.webm?token=xyz",
          "raw/a.webm?t=1", "?a?b", "audio.wav", "hls",
          "x/storage/v1/object/raw/b/c",
          "https://h/storage/v1/object/sign/b/c.webm"}
Locators == {h \o t : h \in Heads, t \in Tails}

InitResolve ==
  /\ Init!1 /\ Init!2 /\ Init!3 /\ Init!4 /\ Init!5 /\ Init!6 /\ Init!7 /\ Init!8
  /\ Init!9 /\ Init!10 /\ Init!11 /\ Init!12 /\ Init!13 /\ Init!14 /\ Init!15
  /\ Init!18 /\ Init!19 /\ Init!20 /\ Init!21 /\ Init!22 /\ Init!23
  /\ locator \in Locators
  /\ resolved = <<>>

\* resolve(p), then resolve(resolve(p))
Resolve ==
  /\ Len(resolved) < 2
  /\ resolved' = Append(resolved,
       normalize_path_in_bucket(IF resolved = <<>> THEN locator ELSE resolved[Len(resolved)]))
  /\ UNCHANGED <<locator, trVars, reqVars, sysVars>>

NextResolve == Resolve

SpecResolve == InitResolve /\ [][NextResolve]_vars

TypeOK ==
  /\ \A r \in Req : status[r] \in {0, 200, 400, 401, 500, 502}
  /\ dirs \subseteq Dirs

\* ------------------------------------------------------ run_transcription
\* str.strip(): drop the leading and trailing whitespace
Whitespace == {" ", "\t", "\n"}

RECURSIVE LStrip(_)
LStrip(s) == IF s # "" /\ SubSeq(s, 1, 1) \in Whitespace THEN LStrip(Drop(s, 1)) ELSE s

RECURSIVE RStrip(_)
RStrip(s) ==
  IF s # "" /\ SubSeq(s, Len(s), Len(s)) \in Whitespace
  THEN RStrip(SubSeq(s, 1, Len(s) - 1))
  ELSE s

Strip(s) == RStrip(LStrip(s))

\* sep.join(lines)
RECURSIVE Join(_, _)
Join(sep, lines) ==
  IF lines = <<>> THEN ""
  ELSE IF Len(lines) = 1 THEN lines[1]
  ELSE lines[1] \o sep \o Join(sep, Tail(lines))

\* what the engine can yield: a Word has more fields than the transcript keeps;
\* seg.words is None (<<>>), or a list (<<list>>) that may be empty
EngineWords == {[word |-> " Hi", start |-> 0, end |-> 1, probability |-> 9]}
WordOptions == {<<>>, << <<>> >>} \union {<< <<w>> >> : w \in EngineWords}
Texts == {" Hi ", "there", "", "a b\n"}
EngineSegments ==
  {[id |-> i, start |-> 2 * i, end |-> 2 * i + 1, text |-> t, words |-> w] :
     i \in 1..2, t \in Texts, w \in WordOptions}
EngineInfos == {[duration |-> 12, language |-> "en"], [duration |-> 0, language |-> "fr"]}

RECURSIVE SeqsUpTo(_, _)
SeqsUpTo(S, n) ==
  IF n = 0 THEN {<<>>}
  ELSE SeqsUpTo(S, n - 1) \union
       {Append(q, x) : q \in {y \in SeqsUpTo(S, n - 1) : Len(y) = n - 1}, x \in S}

\* a test for None only: an empty list still gives a words key
TruthyNotNone(words) == words # <<>>

\* line 161: if seg.words
Truthy(words) == words # <<>> /\ words[1] # <<>>

\* line 162: one entry of the words list
word_dict(w) == [word |-> w.word, start |-> w.start, end |-> w.end]

\* lines 160-162: the entry of one segment
seg_dict(seg) ==
  IF Truthy(seg.words)
  THEN [id |-> seg.id, start |-> seg.start, end |-> seg.end, text |-> seg.text,
        words |-> [j \in 1..Len(seg.words[1]) |-> word_dict(seg.words[1][j])]]
  ELSE [id |-> seg.id, start |-> seg.start, end |-> seg.end, text |-> seg.text]

\* a line that keeps the segment's whitespace
txt_line_raw(seg) == seg.text

\* line 164: seg.text.strip()
txt_line(seg) == Strip(seg.text)

\* lines 153-157: model.transcribe returned; the two outputs start empty
TrStart ==
  /\ tr_pc = "start"
  /\ transcript_json' = [duration |-> eng_info.duration, language |-> eng_info.language,
                         segments |-> <<>>]
  /\ txt_lines' = <<>>
  /\ tr_pc' = "loop"
  /\ UNCHANGED <<eng_info, eng_segments, transcript_txt, locator, resolved, reqVars, sysVars>>

\* lines 159-164: one iteration of the loop, on the next segment the engine yields
TrLoop ==
  /\ tr_pc = "loop"
  /\ Len(txt_lines) < Len(eng_segments)
  /\ LET seg == eng_segments[Len(txt_lines) + 1]
     IN  /\ transcript_json' =
               [transcript_json EXCEPT !.segments = Append(@, seg_dict(seg))]
         /\ txt_lines' = Append(txt_lines, txt_line(seg))
  /\ UNCHANGED <<eng_info, eng_segments, tr_pc, transcript_txt, locator, resolved,
                 reqVars, sysVars>>

\* lines 166-168: the generator is exhausted; join and return
TrFinish ==
  /\ tr_pc = "loop"
  /\ Len(txt_lines) = Len(eng_segments)
  /\ transcript_txt' = Join("\n", txt_lines)
  /\ tr_pc' = "done"
  /\ UNCHANGED <<eng_info, eng_segments, transcript_json, txt_lines, locator, resolved,
                 reqVars, sysVars>>

\* SpecTranscribe: run_transcription on every engine output of up to MaxLines segments
InitTranscribe ==
  /\ Init!1 /\ Init!2 /\ Init!3 /\ Init!4 /\ Init!5 /\ Init!6 /\ Init!7 /\ Init!8
  /\ Init!9 /\ Init!10 /\ Init!11 /\ Init!12 /\ Init!13 /\ Init!14 /\ Init!15
  /\ Init!16 /\ Init!17
  /\ eng_info \in EngineInfos
  /\ eng_segments \in SeqsUpTo(EngineSegments, MaxLines)
  /\ tr_pc = "start"
  /\ Init!21 /\ Init!22 /\ Init!23

NextTranscribe == TrStart \/ TrLoop \/ TrFinish

SpecTranscribe == InitTranscribe /\ [][NextTranscribe]_vars

\* ------------------------------------------------------------ claims
HasCall(r, op) == \E i \in 1..Len(calls[r]) : calls[r][i][1] = op

MissingOrEmpty(d, k) == k \notin DOMAIN d \/ d[k] = ""

Authenticated(r) == x_api_key[r] = <<API_KEY>>

Returned(r) == pc[r] = "done"

C2_Unauthorized ==
  \A r \in Req :
    (pc[r] # "idle" /\ ~Authenticated(r)) =>
      /\ pc[r] \in {"except", "finally", "done"}
      /\ exc[r] = "http401"
      /\ pc[r] # "except" => status[r] = 401
      /\ calls[r] = <<>> /\ oks[r] = {}
      /\ temp_dir[r] = 0 /\ dirs = {} /\ store = {}

\* C2 witness: a request without the header and with a complete body has
\* returned 401.
C2_Witness ==
  /\ Returned(1) /\ x_api_key[1] = <<>> /\ status[1] = 401
  /\ ~MissingOrEmpty(data[1], "rawPath") /\ ~MissingOrEmpty(data[1], "processedPrefix")

\* C3: an authenticated request whose rawPath or processedPrefix is missing
\* or empty raises 400 with no workspace created and no external call made.
C3_BadRequest ==
  \A r \in Req :
    (pc[r] # "idle" /\ Authenticated(r)
       /\ (MissingOrEmpty(data[r], "rawPath") \/ MissingOrEmpty(data[r], "processedPrefix"))) =>
      /\ pc[r] \in {"except", "finally", "done"}
      /\ exc[r] = "http400"
      /\ pc[r] # "except" => status[r] = 400
      /\ calls[r] = <<>> /\ oks[r] = {}
      /\ temp_dir[r] = 0 /\ dirs = {} /\ store = {}

\* C3 witness: an authenticated request with rawPath present and an empty
\* processedPrefix has returned 400.
C3_Witness ==
  /\ Returned(1) /\ Authenticated(1) /\ status[1] = 400
  /\ ~MissingOrEmpty(data[1], "rawPath")
  /\ "processedPrefix" \in DOMAIN data[1] /\ data[1]["processedPrefix"] = ""

\* C4: a request makes a publish call, or has an object in destination
\* storage, only after its download, its WAV extract, its recognition and its
\* HLS export have each completed; a request whose recognition raised has
\* published nothing.
C4_PublishAfterAllStages ==
  \A r \in Req :
    /\ HasCall(r, "put") => {"download", "wav", "transcribe", "hls"} \subseteq oks[r]
    /\ exc[r] = "EngineError" => ~HasCall(r, "put")

\* C4 witness: a request has made a publish call after all four stages.
C4_Witness ==
  /\ HasCall(1, "put")
  /\ {"download", "wav", "transcribe", "hls"} \subseteq oks[1]

\* C5 (as claimed): a request whose fetch or publish call failed, by an
\* upstream status or by a network fault, answers 502.
C5_FetchOrPublishFailureIs502 ==
  \A r \in Req :
    (Returned(r) /\ exc[r] \in {"http502", "RequestException"}) => status[r] = 502

\* C6: a transcoder non-zero exit, an engine exception or any other
\* unclassified fault answers 500, never 200; every returned request has
\* exactly one status among 200, 400, 401, 500, 502, and 200 only when no
\* exception was raised.
C6_FaultIs500 ==
  \A r \in Req :
    pc[r] \in {"finally", "done"} =>
      /\ status[r] \in {200, 400, 401, 500, 502}
      /\ exc[r] \in {"CalledProcessError", "EngineError", "OSError"} => status[r] = 500
      /\ status[r] = 200 <=> exc[r] = ""

\* C6 witness: a request whose recognition raised has returned 500.
C6_Witness ==
  /\ Returned(1) /\ exc[1] = "EngineError" /\ status[1] = 500

IsUrl(p) == StartsWith(p, "http")

\* a path inside the bucket: neither a URL nor prefixed by the raw-bucket name
Plain(p) == ~IsUrl(p) /\ ~StartsWith(p, RAW_BUCKET \o "/")

\* a plain path behind exactly one raw-bucket segment
PrefixedOnce(p) ==
  StartsWith(p, RAW_BUCKET \o "/") /\ Plain(Drop(p, Len(RAW_BUCKET) + 1))

\* C7 (as claimed): for every locator that is not a URL, paths that repeat the
\* raw-bucket name included, resolving the result again changes nothing.
C7_IdempotentOnAllPaths ==
  (Len(resolved) = 2 /\ ~IsUrl(locator)) => resolved[2] = resolved[1]

\* C7 (amended): a plain path resolves to itself, and for a plain path and
\* for a plain path behind exactly one raw-bucket segment resolving the
\* result again changes nothing.
C7_IdempotentOnPlainAndPrefixedOnce ==
  /\ (Len(resolved) >= 1 /\ Plain(locator)) => resolved[1] = locator
  /\ (Len(resolved) = 2 /\ (Plain(locator) \/ PrefixedOnce(locator))) =>
       resolved[2] = resolved[1]

\* C7 witness: raw/clip1/a.webm was resolved twice and lost its one bucket
\* segment in the first pass only.
C7_Witness ==
  /\ locator = "raw/clip1/a.webm"
  /\ resolved = <<"clip1/a.webm", "clip1/a.webm">>

\* the URL prefixes of the checked locators that end right before <rest>
ShapeHeads == {h \in Heads : IsUrl(h) /\ RegexSearch(h \o "x") # {}}

\* <rest> without its query string
BeforeQuery(t) ==
  IF Positions(t, "?", 1) = {} THEN t ELSE SubSeq(t, 1, Least(Positions(t, "?", 1)) - 1)

\* C8 (as claimed): a locator .../object/(sign|raw)/<bucket>/<rest>[?query]
\* resolves to exactly <rest>, query discarded, with no raw-bucket stripping;
\* a URL outside the shape resolves to itself and is fetched as that URL.
C8_UrlResolvesToRest ==
  Len(resolved) >= 1 =>
    /\ \A h \in ShapeHeads, t \in Tails :
         (locator = h \o t /\ BeforeQuery(t) # "") => resolved[1] = BeforeQuery(t)
    /\ (IsUrl(locator) /\ RegexSearch(locator) = {}) =>
         /\ resolved[1] = locator
         /\ sb_download_request(RAW_BUCKET, resolved[1]).url = locator

ProcessedPrefixOf(r) == data[r]["processedPrefix"]

\* the prefix the transcripts would have if transcriptPrefix were honoured
TranscriptPrefixOf(r) ==
  IF "transcriptPrefix" \in DOMAIN data[r] THEN data[r]["transcriptPrefix"]
  ELSE ProcessedPrefixOf(r)

PutCalls(r, bucket) ==
  {calls[r][i][3] : i \in {j \in 1..Len(calls[r]) :
                             calls[r][j][1] = "put" /\ calls[r][j][2] = bucket}}

\* C9 (as claimed): on success the transcripts are at {transcriptPrefix}.json
\* and {transcriptPrefix}.txt, transcriptPrefix defaulting to processedPrefix,
\* and the response names those paths.
C9_TranscriptsAtTranscriptPrefix ==
  \A r \in Req :
    status[r] = 200 =>
      /\ PutCalls(r, TRANSCRIPTS_BUCKET) =
           {TranscriptPrefixOf(r) \o ".json", TranscriptPrefixOf(r) \o ".txt"}
      /\ resp[r].transcript_json = TranscriptPrefixOf(r) \o ".json"
      /\ resp[r].transcript_txt = TranscriptPrefixOf(r) \o ".txt"

\* C9 (amended): on success the transcripts are at
\* {processedPrefix}/transcript.json and {processedPrefix}/transcript.txt of
\* the transcripts bucket, with or without a transcriptPrefix field, and the
\* response names those paths.
C9_TranscriptsUnderProcessedPrefix ==
  \A r \in Req :
    status[r] = 200 =>
      /\ PutCalls(r, TRANSCRIPTS_BUCKET) =
           {ProcessedPrefixOf(r) \o "/transcript.json", ProcessedPrefixOf(r) \o "/transcript.txt"}
      /\ \A q \in PutCalls(r, TRANSCRIPTS_BUCKET) : <<TRANSCRIPTS_BUCKET, q>> \in store
      /\ resp[r].transcript_json = ProcessedPrefixOf(r) \o "/transcript.json"
      /\ resp[r].transcript_txt = ProcessedPrefixOf(r) \o "/transcript.txt"

\* C9 witness: a request that carries a transcriptPrefix has succeeded.
C9_Witness ==
  /\ status[1] = 200 /\ "transcriptPrefix" \in DOMAIN data[1]
  /\ <<TRANSCRIPTS_BUCKET, "out/v1/transcript.txt">> \in store

\* the names of the files in the local bundle directory of request r
BundleNames(r) ==
  {Drop(x, 4) : x \in {y \in files[temp_dir[r]] : StartsWith(y, "hls/")}}

\* C10: a successful response has processed_path = {processedPrefix}/master.m3u8
\* whatever the number of segments, and when it is built every file of the
\* local bundle directory has been published at {processedPrefix}/<its name>
\* and nothing else was put in the processed bucket.
C10_BundlePaths ==
  \A r \in Req :
    status[r] = 200 =>
      /\ resp[r].processed_path = ProcessedPrefixOf(r) \o "/master.m3u8"
      /\ pc[r] = "finally" =>
           /\ PutCalls(r, PROCESSED_BUCKET) =
                {ProcessedPrefixOf(r) \o "/" \o f : f \in BundleNames(r)}
           /\ \A q \in PutCalls(r, PROCESSED_BUCKET) : <<PROCESSED_BUCKET, q>> \in store

\* C10 witness: a request whose bundle has two segment files has built its
\* 200 response and still has its workspace.
C10_Witness ==
  /\ pc[1] = "finally" /\ status[1] = 200
  /\ BundleNames(1) = {"master.m3u8", "master0.ts", "master1.ts"}

\* t is s without its leading and trailing whitespace
IsTrimOf(t, s) ==
  \E a \in 1..(Len(s) + 1), b \in 0..Len(s) :
    /\ t = SubSeq(s, a, b)
    /\ \A k \in 1..(a - 1) : SubSeq(s, k, k) \in {" ", "\t", "\n"}
    /\ \A k \in (b + 1)..Len(s) : SubSeq(s, k, k) \in {" ", "\t", "\n"}
    /\ \/ a > b
       \/ /\ SubSeq(s, a, a) \notin {" ", "\t", "\n"}
          /\ SubSeq(s, b, b) \notin {" ", "\t", "\n"}

Trimmed(s) ==
  CHOOSE t \in {SubSeq(s, a, b) : a \in 1..(Len(s) + 1), b \in 0..Len(s)} : IsTrimOf(t, s)

\* the trimmed texts of the first n yielded segments, one per line
RECURSIVE FirstLines(_)
FirstLines(n) ==
  IF n = 0 THEN ""
  ELSE IF n = 1 THEN Trimmed(eng_segments[1].text)
  ELSE FirstLines(n - 1) \o "\n" \o Trimmed(eng_segments[n].text)

\* C11: the plain-text transcript is the newline join of the trimmed text of
\* every yielded segment, one line per segment, in yield order; the empty
\* string when the engine yields nothing.
C11_TextIsJoinInYieldOrder ==
  tr_pc = "done" =>
    /\ Len(txt_lines) = Len(eng_segments)
    /\ transcript_txt = FirstLines(Len(eng_segments))

\* C11 witness: the engine yielded " Hi " then "there", with ids out of
\* order, and the text is "Hi\nthere".
C11_Witness ==
  /\ tr_pc = "done" /\ Len(eng_segments) = 2
  /\ eng_segments[1].text = " Hi " /\ eng_segments[2].text = "there"
  /\ eng_segments[1].id > eng_segments[2].id
  /\ transcript_txt = "Hi\nthere"

\* the engine supplied word-level data for the segment
HasWordData(seg) == seg.words # <<>> /\ Len(seg.words[1]) > 0

\* C12: the JSON transcript holds the engine's duration and language and one
\* entry per yielded segment, in yield order, with the segment's id, start,
\* end and text; an entry has a words key exactly when the engine supplied
\* word-level data, and then it lists each word's text, start and end.
C12_JsonMirrorsEngine ==
  tr_pc = "done" =>
    /\ DOMAIN transcript_json = {"duration", "language", "segments"}
    /\ transcript_json.duration = eng_info.duration
    /\ transcript_json.language = eng_info.language
    /\ Len(transcript_json.segments) = Len(eng_segments)
    /\ \A i \in 1..Len(eng_segments) :
         LET d == transcript_json.segments[i]
             e == eng_segments[i]
         IN  /\ d.id = e.id /\ d.start = e.start /\ d.end = e.end /\ d.text = e.text
             /\ "words" \in DOMAIN d <=> HasWordData(e)
             /\ HasWordData(e) =>
                  /\ Len(d.words) = Len(e.words[1])
                  /\ \A j \in 1..Len(d.words) :
                       /\ DOMAIN d.words[j] = {"word", "start", "end"}
                       /\ d.words[j].word = e.words[1][j].word
                       /\ d.words[j].start = e.words[1][j].start
                       /\ d.words[j].end = e.words[1][j].end

\* C12 witness: two segments were yielded, the first with word data and the
\* second with an empty word list; only the first entry has a words key.
C12_Witness ==
  /\ tr_pc = "done" /\ Len(eng_segments) = 2
  /\ HasWordData(eng_segments[1]) /\ eng_segments[2].words = << <<>> >>
  /\ "words" \in DOMAIN transcript_json.segments[1]
  /\ "words" \notin DOMAIN transcript_json.segments[2]

\* request r holds a workspace: temp_dir is bound and process has not returned
HoldsWorkspace(r) == temp_dir[r] # 0 /\ pc[r] # "done"

CalledHls(r) ==
  \E i \in 1..Len(calls[r]) : calls[r][i][1] = "ffmpeg" /\ calls[r][i][2] = "hls"

\* what request r itself has written outside the bundle directory
WrittenBy(r) ==
  (IF "download" \in oks[r] THEN {local_raw_name(path_in_bucket[r])} ELSE {})
    \union (IF "wav" \in oks[r] THEN {"audio.wav"} ELSE {})
    \union (IF CalledHls(r) THEN {"hls"} ELSE {})

\* C13: under every interleaving, the workspaces of requests that hold one at
\* the same time are distinct directories that exist, and each holds exactly
\* what its own request wrote: no other request added to it, and no other
\* request's cleanup removed it or a file in it.
C13_WorkspacesIsolated ==
  \A r \in Req :
    HoldsWorkspace(r) =>
      /\ temp_dir[r] \in dirs
      /\ \A q \in Req \ {r} : HoldsWorkspace(q) => temp_dir[q] # temp_dir[r]
      /\ {x \in files[temp_dir[r]] : ~StartsWith(x, "hls/")} = WrittenBy(r)
      /\ "hls/master.m3u8" \in files[temp_dir[r]] <=> "hls" \in oks[r]

\* C13 witness: two requests with the same rawPath hold workspaces at the
\* same time, each with its own download, and the first is about to clean up.
C13_Witness ==
  /\ pc[1] = "finally" /\ pc[2] = "wav"
  /\ HoldsWorkspace(1) /\ HoldsWorkspace(2)
  /\ data[1]["rawPath"] = data[2]["rawPath"]
  /\ "a.webm" \in files[temp_dir[1]] /\ "a.webm" \in files[temp_dir[2]]

\* the stage of a call in the order the claim gives: Downloading,
\* Transcoding (both ffmpeg runs), Transcribing, Publishing
ClaimedRank(c) ==
  IF c[1] = "get" THEN 1
  ELSE IF c[1] = "ffmpeg" THEN 2
  ELSE IF c[1] = "transcribe" THEN 3
  ELSE 4

\* the stage of a call in the order of lines 198-226: download, WAV extract,
\* recognition, HLS export, publishing
CodeRank(c) ==
  IF c[1] = "get" THEN 1
  ELSE IF c[1] = "ffmpeg" /\ c[2] = "wav" THEN 2
  ELSE IF c[1] = "transcribe" THEN 3
  ELSE IF c[1] = "ffmpeg" /\ c[2] = "hls" THEN 4
  ELSE 5

\* C14 (as claimed): the calls of a request never go back to an earlier stage
\* of Downloading, Transcoding, Transcribing, Publishing, so no transcoder
\* run follows the recognition.
C14_TranscodingBeforeRecognition ==
  \A r \in Req : \A i, j \in 1..Len(calls[r]) :
    i < j => ClaimedRank(calls[r][i]) <= ClaimedRank(calls[r][j])

\* C14 (amended): the calls of a request never go back to an earlier stage of
\* download, WAV extract, recognition, HLS export, publishing; recognition
\* starts only after the WAV extract is finished, and the HLS export only
\* after recognition is finished.
C14_StagesInCodeOrder ==
  \A r \in Req :
    /\ \A i, j \in 1..Len(calls[r]) :
         i < j => CodeRank(calls[r][i]) <= CodeRank(calls[r][j])
    /\ HasCall(r, "transcribe") => {"download", "wav"} \subseteq oks[r]
    /\ CalledHls(r) => "transcribe" \in oks[r]

\* C14 witness: a request ran the HLS export after its recognition had
\* finished, and succeeded.
C14_Witness ==
  /\ status[1] = 200 /\ "transcribe" \in oks[1]
  /\ \E i, j \in 1..Len(calls[1]) :
       i < j /\ calls[1][i][1] = "transcribe" /\ calls[1][j][1] = "ffmpeg"

\* C15 (as claimed): at most one request at a time is inside the engine,
\* between model.transcribe and the end of its segment loop.
C15_EngineSerialized == Cardinality(engine) <= 1

CountCalls(r, op, what) ==
  Cardinality({i \in 1..Len(calls[r]) : calls[r][i][1] = op /\ calls[r][i][2] = what})

\* C16: a request makes at most one download, one WAV run, one HLS run and one
\* transcribe call, never repeats a call (so no destination is put twice),
\* and makes no call once an exception has been raised.
C16_NothingRetried ==
  /\ [](\A r \in Req :
          /\ Cardinality({i \in 1..Len(calls[r]) : calls[r][i][1] = "get"}) <= 1
          /\ CountCalls(r, "ffmpeg", "wav") <= 1
          /\ CountCalls(r, "ffmpeg", "hls") <= 1
          /\ CountCalls(r, "transcribe", "audio.wav") <= 1
          /\ \A i, j \in 1..Len(calls[r]) : i < j => calls[r][i] # calls[r][j])
  /\ [][\A r \in Req : exc[r] # "" => calls'[r] = calls[r]]_vars

\* C16 witness: a request whose second publish call failed has returned, with
\* that call as its last.
C16_Witness ==
  /\ Returned(1) /\ exc[1] = "http502"
  /\ Len(calls[1]) = 6 /\ calls[1][5][1] = "put" /\ calls[1][6][1] = "put"

\* C17: a request with a wrong or missing key raises 401 even when rawPath or
\* processedPrefix is missing or empty; only an authenticated request gets 400.
C17_AuthBeforeValidation ==
  \A r \in Req :
    /\ (pc[r] # "idle" /\ ~Authenticated(r)
          /\ (MissingOrEmpty(data[r], "rawPath") \/ MissingOrEmpty(data[r], "processedPrefix"))) =>
         /\ exc[r] = "http401"
         /\ status[r] \in {0, 401}
    /\ (status[r] = 400 \/ exc[r] = "http400") => Authenticated(r)

\* C17 witness: a request with a wrong key and an empty body has returned 401.
C17_Witness ==
  /\ Returned(1) /\ x_api_key[1] = <<"wrong">> /\ DOMAIN data[1] = {}
  /\ status[1] = 401

LastCall(r) == calls[r][Len(calls[r])]

PublishFailed(r) == exc[r] # "" /\ calls[r] # <<>> /\ LastCall(r)[1] = "put"

AllPuts(r) ==
  {<<calls[r][i][2], calls[r][i][3]>> : i \in {j \in 1..Len(calls[r]) : calls[r][j][1] = "put"}}

\* C18: a 200 response exists only when a publish call was made, and its
\* object stored, for every bundle file, for the JSON transcript and for the
\* text transcript; after a failed publish call the request makes no further
\* call and its status is 502 or 500, and what was stored stays stored.
C18_AllPublishedOr5xx ==
  /\ [](\A r \in Req :
          /\ status[r] = 200 =>
               /\ AllPuts(r) \subseteq store
               /\ {<<TRANSCRIPTS_BUCKET, ProcessedPrefixOf(r) \o "/transcript.json">>,
                   <<TRANSCRIPTS_BUCKET, ProcessedPrefixOf(r) \o "/transcript.txt">>,
                   <<PROCESSED_BUCKET, ProcessedPrefixOf(r) \o "/master.m3u8">>}
                    \subseteq AllPuts(r)
               /\ todo[r] = {}
          /\ PublishFailed(r) =>
               /\ status[r] \in {0, 500, 502}
               /\ AllPuts(r) \ {<<LastCall(r)[2], LastCall(r)[3]>>} \subseteq store)
  /\ [][/\ store \subseteq store'
        /\ \A r \in Req : PublishFailed(r) => calls'[r] = calls[r]]_vars

\* C18 witness: a request whose JSON transcript upload was refused has
\* returned 502, and the playlist it had published is still stored.
C18_Witness ==
  /\ Returned(1) /\ PublishFailed(1) /\ status[1] = 502
  /\ ProcessedPrefixOf(1) = "p"
  /\ LastCall(1) = <<"put", TRANSCRIPTS_BUCKET, "p/transcript.json">>
  /\ <<PROCESSED_BUCKET, "p/master.m3u8">> \in store

\* C19 (as claimed): for every resolved locator the downloaded input, the
\* audio extract and the bundle directory are three different workspace paths.
C19_WorkspacePathsDistinct ==
  Len(resolved) >= 1 =>
    /\ local_raw_name(resolved[1]) # local_wav_name
    /\ local_raw_name(resolved[1]) # hls_dir_name
    /\ local_wav_name # hls_dir_name

GetCalls(r) == {calls[r][i] : i \in {j \in 1..Len(calls[r]) : calls[r][j][1] = "get"}}

\* C20: a download carries the credential headers only when it is addressed
\* to the configured storage endpoint, and then it targets the configured raw
\* bucket whatever bucket the caller's URL named; a resolved locator that is
\* a URL is fetched as it is, without the headers.
C20_CredentialsOnlyToStorage ==
  \A r \in Req : \A c \in GetCalls(r) :
    IF IsUrl(path_in_bucket[r])
    THEN c = <<"get", path_in_bucket[r], "plain">>
    ELSE /\ c[3] = "authorized"
         /\ c[2] = SUPABASE_URL \o "/storage/v1/object/raw/" \o RAW_BUCKET \o "/"
                     \o path_in_bucket[r]

\* C20 witness: a caller's URL naming the bucket vids was downloaded, with
\* credentials, from the configured raw bucket.
C20_Witness ==
  /\ pc[1] # "idle" /\ "rawPath" \in DOMAIN data[1]
  /\ data[1]["rawPath"] = "https://h/storage/v1/object/sign/vids/c/a.webm?token=xyz"
  /\ GetCalls(1) = {<<"get", "https://sb/storage/v1/object/raw/raw/c/a.webm", "authorized">>}

====
